---- MODULE Spec2Model ----
(***************************************************************************)
(* Model of rustler_logger: the Log message builder and its drop guard      *)
(* (src/src/message.rs), the scoped thread-local Env (src/src/context.rs),  *)
(* the panic hook and panic relay (src/src/panic.rs) and the log levels     *)
(* (src/src/level.rs).                                                      *)
(*                                                                         *)
(* Option<T> is modelled as a sequence: <<>> is None, <<x>> is Some(x).     *)
(***************************************************************************)
EXTENDS Integers, Sequences, FiniteSets, TLC

VARIABLES
    ENV,          \* context.rs ENV: per thread, the scoped thread-local slot
    saved,        \* per thread, the previous slot values kept by the active ENV.set calls
    scopes,       \* per thread, the handles passed to the active use_env calls (history)
    mode,         \* per thread: "running" or "unwinding" (a panic is propagating)
    PANIC_INFO,   \* panic.rs PANIC_INFO: per thread, Option<PanicInfo>
    INITIALIZED,  \* message.rs INITIALIZED: the LazyLock has run
    hooks,        \* number of set_hook calls made so far (history)
    msgs,         \* the Log values: fields of the struct plus their history
    mailbox,      \* the tuples the logger proxy received, in order
    logger_proxy, \* Option<pid>: the process registered as logger_proxy
    alive,        \* the pids that are alive
    started,      \* the pids that were ever spawned
    aborted,      \* the process aborted (panic while panicking)
    recent,       \* per thread, what the hook was last given since the slot was taken (history)
    last,         \* the last call made: who, what, on which Log, and how it ended
    conv          \* the last call of a function of level.rs: which, its argument, its result

vars == <<ENV, saved, scopes, mode, PANIC_INFO, INITIALIZED, hooks, msgs, mailbox,
          logger_proxy, alive, started, aborted, recent, last, conv>>

(***************************************************************************)
(* Bounds of the model.                                                    *)
(***************************************************************************)
MaxMsgs == 2        \* Log values created in one run
MaxDepth == 2       \* nesting depth of use_env
MaxArgs == 2        \* positional arguments per message
MaxMeta == 2        \* metadata pairs per message
MaxMailbox == 2     \* transmissions in one run
MaxProxies == 2     \* logger proxy processes spawned in one run

Threads == {"t1", "t2"}
MsgIds == 1..MaxMsgs
Pids == 1..MaxProxies
EnvIds == 1..MaxDepth

None == <<>>
Some(x) == <<x>>
IsSome(o) == o # <<>>
Unwrap(o) == o[1]

\* An Env handle belongs to the NIF call of one thread.
Handles == Threads \X EnvIds
HandlesOf(t) == {t} \X EnvIds

Values == {"a", "b"}                 \* Encodable values given to the builder
Formats == {"Hello, ~s!"}

(***************************************************************************)
(* level.rs                                                                *)
(***************************************************************************)
\* the enum with Notice declared after Warning
LogLevelSwapped == <<"Debug", "Info", "Warning", "Notice", "Error", "Critical", "Alert",
                     "Emergency">>

\* enum LogLevel: the variants in the order of declaration
LogLevel == <<"Debug", "Info", "Notice", "Warning", "Error", "Critical", "Alert",
              "Emergency">>

Levels == {LogLevel[i] : i \in 1..Len(LogLevel)}

\* The position of a level in the enum declaration: derive(PartialOrd, Ord).
Discriminant(l) == CHOOSE i \in 1..Len(LogLevel) : LogLevel[i] = l

LevelLess(a, b) == Discriminant(a) < Discriminant(b)

\* derive(PartialEq, Eq)
LevelEq(a, b) == Discriminant(a) = Discriminant(b)

\* a parser that knows warn but not warning
LevelFromStrShort(s) ==
    CASE s = "trace" -> "Debug"
      [] s = "debug" -> "Debug"
      [] s = "info" -> "Info"
      [] s = "notice" -> "Notice"
      [] s = "warn" -> "Warning"
      [] s = "error" -> "Error"
      [] s = "critical" -> "Critical"
      [] s = "alert" -> "Alert"
      [] s = "emergency" -> "Emergency"
      [] s = "fatal" -> "Emergency"
      [] OTHER -> "Debug"

\* impl From<&str> for LogLevel
LevelFromStr(s) ==
    CASE s = "trace" -> "Debug"
      [] s = "debug" -> "Debug"
      [] s = "info" -> "Info"
      [] s = "notice" -> "Notice"
      [] s = "warn" -> "Warning"
      [] s = "warning" -> "Warning"
      [] s = "error" -> "Error"
      [] s = "critical" -> "Critical"
      [] s = "alert" -> "Alert"
      [] s = "emergency" -> "Emergency"
      [] s = "fatal" -> "Emergency"
      [] OTHER -> "Debug"

\* impl From<LogLevel> for &str
LevelToStr(l) ==
    CASE l = "Debug" -> "debug"
      [] l = "Info" -> "info"
      [] l = "Notice" -> "notice"
      [] l = "Warning" -> "warning"
      [] l = "Error" -> "error"
      [] l = "Critical" -> "critical"
      [] l = "Alert" -> "alert"
      [] l = "Emergency" -> "emergency"

\* LogLevel::as_atom
as_atom(l) ==
    CASE l = "Debug" -> [atom |-> "debug"]
      [] l = "Info" -> [atom |-> "info"]
      [] l = "Notice" -> [atom |-> "notice"]
      [] l = "Warning" -> [atom |-> "warning"]
      [] l = "Error" -> [atom |-> "error"]
      [] l = "Critical" -> [atom |-> "critical"]
      [] l = "Alert" -> [atom |-> "alert"]
      [] l = "Emergency" -> [atom |-> "emergency"]

(***************************************************************************)
(* message.rs: the Log struct and its builder methods, as operators on the  *)
(* struct value [level, format, args, metadata, pending].                   *)
(***************************************************************************)
\* Log::new
LogNew(level, format) ==
    [level |-> level, format |-> format, args |-> <<>>, metadata |-> <<>>,
     pending |-> TRUE]

\* arg refusing a Log that was already used
LogArgChecked(log, arg) == IF log.pending THEN [log EXCEPT !.args = Append(@, arg)] ELSE log

\* Log::arg
LogArg(log, arg) == [log EXCEPT !.args = Append(@, arg)]

\* Log::opt_arg
LogOptArg(log, arg) ==
    IF IsSome(arg) THEN [log EXCEPT !.args = Append(@, Unwrap(arg))] ELSE log

\* opt_arg_else that appends nothing when the value is absent
LogOptArgElseSkip(log, some_arg, none_arg) ==
    IF IsSome(some_arg) THEN [log EXCEPT !.args = Append(@, Unwrap(some_arg))] ELSE log

\* Log::opt_arg_else
LogOptArgElse(log, some_arg, none_arg) ==
    IF IsSome(some_arg)
    THEN [log EXCEPT !.args = Append(@, Unwrap(some_arg))]
    ELSE [log EXCEPT !.args = Append(@, none_arg)]

\* Log::meta
LogMeta(log, key, value) == [log EXCEPT !.metadata = Append(@, <<key, value>>)]

\* Log::opt_meta
LogOptMeta(log, key, value) ==
    IF IsSome(value)
    THEN [log EXCEPT !.metadata = Append(@, <<key, Unwrap(value)>>)]
    ELSE log

\* A struct literal Log { .. }: every field of the struct is pub.
LogLiteral(level, format, pending) ==
    [level |-> level, format |-> format, args |-> <<>>, metadata |-> <<>>,
     pending |-> pending]

\* a clone that comes out used
LogCloneUsed(log) ==
    [level |-> log.level, format |-> log.format, args |-> log.args,
     metadata |-> log.metadata, pending |-> FALSE]

\* derive(Clone)
LogClone(log) ==
    [level |-> log.level, format |-> log.format, args |-> log.args,
     metadata |-> log.metadata, pending |-> log.pending]

(***************************************************************************)
(* Encoding to terms (rustler::Encoder, Atom::from_str, Term::map_from_pairs) *)
(***************************************************************************)
\* A key of 256 bytes, the shortest one Atom::from_str rejects.
LongKey == "k256"
Keys == {"user", "uid", LongKey}

\* Length in bytes of each key of the model.
KeyLen(k) == IF k = LongKey THEN 256 ELSE 4

\* enif_make_existing_atom_len / enif_make_atom_len: atoms hold at most 255 characters.
MAX_ATOM_CHARACTERS == 255

\* Atom::from_str(env, key): Ok(atom) or Err
AtomFromStr(k) == IF KeyLen(k) <= MAX_ATOM_CHARACTERS THEN Some([atom |-> k]) ELSE None

\* value.encode(env): a Rust string becomes a binary term
Encode(v) == [bin |-> v]

\* the arguments encoded last to first
EncodeArgsReversed(args) == [i \in 1..Len(args) |-> Encode(args[Len(args) + 1 - i])]

\* self.args.iter().map(|arg| arg.encode(env)).collect()
EncodeArgs(args) == [i \in 1..Len(args) |-> Encode(args[i])]

\* Term::map_from_pairs: Err when two pairs hold the same key
MapFromPairs(pairs) ==
    IF \E i, j \in 1..Len(pairs) : i < j /\ pairs[i][1] = pairs[j][1]
    THEN None
    ELSE Some([k \in {pairs[i][1] : i \in 1..Len(pairs)} |->
                 (CHOOSE p \in {pairs[i] : i \in 1..Len(pairs)} : p[1] = k)[2]])

(***************************************************************************)
(* Log::send (the build that is not cfg(test)), step by step.  env is the   *)
(* thread's ENV slot, whereis the registered pid, isAlive the pids alive,   *)
(* sendOk what env.send returns.  The result names the place where the call *)
(* ended (site), the steps it completed (trace), the struct afterwards and  *)
(* the tuple transmitted, if any.                                           *)
(***************************************************************************)
SendResult(site, trace, log, wire, to) ==
    [site |-> site, trace |-> trace, log |-> log, wire |-> wire, to |-> to]

\* a send that marks the Log used only once env.send has accepted the tuple
SendShipMarkLate(log, wire, pid, sendOk) ==
    IF sendOk
    THEN SendResult("ok", <<"env", "encode", "map", "whereis", "alive", "send", "used">>,
                    [log EXCEPT !.pending = FALSE], Some(wire), Some(pid))
    ELSE SendResult("ship", <<"env", "encode", "map", "whereis", "alive">>, log, None, None)

\* a send that keeps using the first pid ever registered
SendShipCached(log, wire, pid, sendOk) ==
    LET used == [log EXCEPT !.pending = FALSE]
        first == CHOOSE p \in Pids : \A q \in Pids : p <= q
    IN  IF sendOk
        THEN SendResult("ok", <<"env", "encode", "map", "whereis", "alive", "used",
                                "send">>, used, Some(wire), Some(first))
        ELSE SendResult("ship", <<"env", "encode", "map", "whereis", "alive", "used">>,
                        used, None, None)

\* self.pending = false; env.send(&logger_proxy_pid, log_msg)
SendShip(log, wire, pid, sendOk) ==
    LET used == [log EXCEPT !.pending = FALSE]
    IN  IF sendOk
        THEN SendResult("ok", <<"env", "encode", "map", "whereis", "alive", "used",
                                "send">>, used, Some(wire), Some(pid))
        ELSE SendResult("ship", <<"env", "encode", "map", "whereis", "alive", "used">>,
                        used, None, None)

\* send without the liveness check of the registered pid
SendResolveNoAlive(log, wire, whereis, isAlive, sendOk) ==
    IF ~IsSome(whereis)
    THEN SendResult("not_registered", <<"env", "encode", "map">>, log, None, None)
    ELSE SendShip(log, wire, Unwrap(whereis), sendOk)

SendResolve(log, wire, whereis, isAlive, sendOk) ==
    IF ~IsSome(whereis)
    THEN SendResult("not_registered", <<"env", "encode", "map">>, log, None, None)
    ELSE IF Unwrap(whereis) \notin isAlive
    THEN SendResult("not_alive", <<"env", "encode", "map", "whereis">>, log, None, None)
    ELSE SendShip(log, wire, Unwrap(whereis), sendOk)

SendEncode(log, whereis, isAlive, sendOk) ==
    IF \E i \in 1..Len(log.metadata) : ~IsSome(AtomFromStr(log.metadata[i][1]))
    THEN SendResult("bad_key", <<"env">>, log, None, None)
    ELSE LET args == EncodeArgs(log.args)
             pairs == [i \in 1..Len(log.metadata) |->
                         <<Unwrap(AtomFromStr(log.metadata[i][1])),
                           Encode(log.metadata[i][2])>>]
             map == MapFromPairs(pairs)
         IN  IF ~IsSome(map)
             THEN SendResult("map", <<"env", "encode">>, log, None, None)
             ELSE SendResolve(log,
                              <<[atom |-> "log"], as_atom(log.level),
                                Encode(log.format), args, Unwrap(map)>>,
                              whereis, isAlive, sendOk)

\* send looking up the proxy before it reads ENV
SendStepsProxyFirst(log, env, whereis, isAlive, sendOk) ==
    IF ~log.pending
    THEN SendResult("send_used", <<>>, log, None, None)
    ELSE IF ~IsSome(whereis)
    THEN SendResult("not_registered", <<>>, log, None, None)
    ELSE IF ~IsSome(env)
    THEN SendResult("no_env", <<>>, log, None, None)
    ELSE SendEncode(log, whereis, isAlive, sendOk)

SendSteps(log, env, whereis, isAlive, sendOk) ==
    IF ~log.pending
    THEN SendResult("send_used", <<>>, log, None, None)
    ELSE IF ~IsSome(env)
    THEN SendResult("no_env", <<>>, log, None, None)
    ELSE SendEncode(log, whereis, isAlive, sendOk)

\* cancel without the test of the flag
CancelStepsUnchecked(log) == [site |-> "ok", log |-> [log EXCEPT !.pending = FALSE]]

\* Log::cancel
CancelSteps(log) ==
    IF log.pending
    THEN [site |-> "ok", log |-> [log EXCEPT !.pending = FALSE]]
    ELSE [site |-> "cancel_used", log |-> log]

\* Drop with the test of the flag inverted
DropPanicsInverted(log) == ~log.pending

\* Drop without the guard
DropPanicsNever(log) == FALSE

\* impl Drop for Log: whether dropping the struct panics
DropPanics(log) == log.pending

(***************************************************************************)
(* The fatal errors: the spec's name of each place where the code panics,   *)
(* and the payload and location the panic hook is given there.              *)
(***************************************************************************)
ErrorOf(site) ==
    CASE site = "ok" -> "none"
      [] site = "send_used" -> "UseAfterConsumption"
      [] site = "cancel_used" -> "UseAfterConsumption"
      [] site = "no_env" -> "NoActiveContext"
      [] site = "bad_key" -> "DuplicateOrInvalidKey"
      [] site = "map" -> "DuplicateOrInvalidKey"
      [] site = "not_registered" -> "ConsumerUnresolvable"
      [] site = "not_alive" -> "ConsumerUnresolvable"
      [] site = "ship" -> "DeliveryFailed"
      [] site = "drop" -> "UnconsumedOnDestruction"

StrPayload(text) == [kind |-> "str", text |-> text]

PanicPayload(site) ==
    CASE site = "send_used" ->
             StrPayload("attempt to send a log message that has already been used")
      [] site = "cancel_used" ->
             StrPayload("attempt to cancel a log message that has already been used")
      [] site = "no_env" ->
             StrPayload("cannot access a scoped thread local variable without calling set first")
      [] site = "bad_key" ->
             [kind |-> "String", text |-> "called Result::unwrap on an Err value: BadArg"]
      [] site = "map" -> StrPayload("Failed to create metadata map")
      [] site = "not_registered" ->
             StrPayload("BEAM logger proxy process is not registered?!")
      [] site = "not_alive" -> StrPayload("BEAM logger proxy process is not alive?!")
      [] site = "ship" -> StrPayload("failed to ship log message to Elixir")
      [] site = "drop" -> StrPayload("log message generated but not cancelled or sent")

SiteLine(site) ==
    CASE site = "send_used" -> 177
      [] site = "cancel_used" -> 253
      [] site = "no_env" -> 180
      [] site = "bad_key" -> 188
      [] site = "map" -> 196
      [] site = "not_registered" -> 200
      [] site = "not_alive" -> 203
      [] site = "ship" -> 217
      [] site = "drop" -> 263

PanicLoc(site) == Some([file |-> "src/message.rs", line |-> SiteLine(site), col |-> 13])

(***************************************************************************)
(* panic.rs                                                                *)
(***************************************************************************)
\* any_to_string: &'static str and String payloads give their text
any_to_string(payload) ==
    IF payload.kind = "str" THEN payload.text
    ELSE IF payload.kind = "String" THEN payload.text
    ELSE "Box<dyn Any>"

\* panic_hook: the PanicInfo stored for a panic with this payload and location
panic_hook(payload, loc) ==
    [message |-> any_to_string(payload),
     file |-> IF IsSome(loc) THEN Some(Unwrap(loc).file) ELSE None,
     line |-> IF IsSome(loc) THEN Some(Unwrap(loc).line) ELSE None,
     col |-> IF IsSome(loc) THEN Some(Unwrap(loc).col) ELSE None]

\* a static shared by the threads instead of a thread_local
StoreShared(slots, t, value) == [u \in DOMAIN slots |-> value]

\* thread_local!: the slot of thread t is written, every other slot is left alone
StoreLocal(slots, t, value) == [slots EXCEPT ![t] = value]

\* a hook that keeps the first panic instead of the last
HookKeepFirst(slots, installed, t, payload, loc) ==
    IF installed /\ ~IsSome(slots[t])
    THEN [slots EXCEPT ![t] = Some(panic_hook(payload, loc))]
    ELSE slots

\* What a panic on thread t leaves in PANIC_INFO: the hook runs only once installed.
Hook(slots, installed, t, payload, loc) ==
    IF installed THEN StoreLocal(slots, t, Some(panic_hook(payload, loc))) ELSE slots

\* The hook's argument, kept beside the slot as history.
Noted(seen, installed, t, payload, loc) ==
    IF installed THEN [seen EXCEPT ![t] = Some([payload |-> payload, loc |-> loc])]
    ELSE seen

Digit(d) ==
    CASE d = 0 -> "0" [] d = 1 -> "1" [] d = 2 -> "2" [] d = 3 -> "3" [] d = 4 -> "4"
      [] d = 5 -> "5" [] d = 6 -> "6" [] d = 7 -> "7" [] d = 8 -> "8" [] d = 9 -> "9"

\* u32::to_string
RECURSIVE U32ToString(_)
U32ToString(n) == IF n < 10 THEN Digit(n) ELSE U32ToString(n \div 10) \o Digit(n % 10)

PanicFile(info) ==
    IF IsSome(info) /\ IsSome(Unwrap(info).file) THEN Unwrap(Unwrap(info).file)
    ELSE "<unknown>"

PanicLine(info) ==
    IF IsSome(info) /\ IsSome(Unwrap(info).line) THEN U32ToString(Unwrap(Unwrap(info).line))
    ELSE "?"

PanicCol(info) ==
    IF IsSome(info) /\ IsSome(Unwrap(info).col) THEN U32ToString(Unwrap(Unwrap(info).col))
    ELSE "?"

PanicMessage(info) == IF IsSome(info) THEN Some(Unwrap(info).message) ELSE None

\* a relay that gives the column before the line
PanicLogSwapped(info, fname, arity) ==
    LET file == PanicFile(info)
        line == PanicLine(info)
        col == PanicCol(info)
        l0 == LogNew("Critical", "rustler_nif_panic[~s/~s@~s:~s:~s]: ~s")
        l1 == LogArg(l0, fname)
        l2 == LogArg(l1, U32ToString(arity))
        l3 == LogArg(l2, file)
        l4 == LogArg(l3, col)
        l5 == LogArg(l4, line)
        l6 == LogOptArgElse(l5, PanicMessage(info), "unable to find panic information")
        l7 == LogMeta(l6, "file", file)
        l8 == LogMeta(l7, "line", line)
    IN  LogMeta(l8, "column", col)

\* send_panic_message: the Log it builds from the PanicInfo taken out of the slot
PanicLog(info, fname, arity) ==
    LET file == PanicFile(info)
        line == PanicLine(info)
        col == PanicCol(info)
        l0 == LogNew("Critical", "rustler_nif_panic[~s/~s@~s:~s:~s]: ~s")
        l1 == LogArg(l0, fname)
        l2 == LogArg(l1, U32ToString(arity))
        l3 == LogArg(l2, file)
        l4 == LogArg(l3, line)
        l5 == LogArg(l4, col)
        l6 == LogOptArgElse(l5, PanicMessage(info), "unable to find panic information")
        l7 == LogMeta(l6, "file", file)
        l8 == LogMeta(l7, "line", line)
    IN  LogMeta(l8, "column", col)

(***************************************************************************)
(* context.rs: ENV.set(&mut env, func) keeps the previous value of the slot *)
(* in a guard on the stack and puts it back when func returns or unwinds.   *)
(***************************************************************************)
Depth(t) == Len(saved[t])

\* ENV.set on entry
SetEnter(slot, guards, h) == [slot |-> Some(h), guards |-> Append(guards, slot)]

\* the guard's drop when func returns
SetReturn(slot, guards) ==
    [slot |-> guards[Len(guards)], guards |-> SubSeq(guards, 1, Len(guards) - 1)]

\* a guard that is forgotten when func unwinds: the slot keeps the inner handle
SetUnwindLeaky(slot, guards) ==
    [slot |-> slot, guards |-> SubSeq(guards, 1, Len(guards) - 1)]

\* the guard's drop when func unwinds
SetUnwind(slot, guards) ==
    [slot |-> guards[Len(guards)], guards |-> SubSeq(guards, 1, Len(guards) - 1)]

Pop(seq) == SubSeq(seq, 1, Len(seq) - 1)

(***************************************************************************)
(* State                                                                   *)
(***************************************************************************)
EmptyLog == LogLiteral("Debug", "", FALSE)

FreeMsg ==
    [state |-> "free", owner |-> "t1", depth |-> 0, log |-> EmptyLog, rec |-> 0,
     born |-> "none", sent |-> 0, cancelled |-> FALSE, site |-> "none",
     dropErr |-> FALSE]

\* The struct's memory once it was dropped: only the flag is kept, as history.
Freed(log) == [EmptyLog EXCEPT !.pending = log.pending]

Call(op, t, m, site, trace, log) ==
    [op |-> op, t |-> t, m |-> m, site |-> site, trace |-> trace, log |-> log]

Init ==
    /\ ENV = [t \in Threads |-> None]
    /\ saved = [t \in Threads |-> <<>>]
    /\ scopes = [t \in Threads |-> <<>>]
    /\ mode = [t \in Threads |-> "running"]
    /\ PANIC_INFO = [t \in Threads |-> None]
    /\ INITIALIZED = FALSE
    /\ hooks = 0
    /\ msgs = [m \in MsgIds |-> FreeMsg]
    /\ mailbox = <<>>
    /\ logger_proxy = None
    /\ alive = {}
    /\ started = {}
    /\ aborted = FALSE
    /\ recent = [t \in Threads |-> None]
    /\ last = Call("init", "t1", 0, "ok", <<>>, EmptyLog)
    /\ conv = [fn |-> "none", arg |-> "", ret |-> ""]

Running(t) == ~aborted /\ mode[t] = "running"

Live(t, m) == msgs[m].state = "live" /\ msgs[m].owner = t

\* Log values are allocated in order.
Fresh(m) == msgs[m].state = "free" /\ \A k \in MsgIds : k < m => msgs[k].state # "free"

InFrame(t, d) == {m \in MsgIds : Live(t, m) /\ msgs[m].depth = d}

(***************************************************************************)
(* A panic raised by the library on thread t at the given place.  The hook  *)
(* records it; when the Log the call owns is still pending, its Drop panics *)
(* while the first panic unwinds, and the process aborts.                   *)
(***************************************************************************)
\* What the hook leaves in PANIC_INFO when the panic is raised.
RaisedSlots(slots, t, site, selfPending) ==
    LET first == Hook(slots, INITIALIZED, t, PanicPayload(site), PanicLoc(site))
    IN  IF selfPending
        THEN Hook(first, INITIALIZED, t, PanicPayload("drop"), PanicLoc("drop"))
        ELSE first

\* The rest of the panic: the history, and the unwinding or the abort.
Raising(seen, t, site, selfPending) ==
    LET noted == Noted(seen, INITIALIZED, t, PanicPayload(site), PanicLoc(site))
    IN  IF selfPending
        THEN /\ recent' = Noted(noted, INITIALIZED, t, PanicPayload("drop"),
                                PanicLoc("drop"))
             /\ aborted' = TRUE
             /\ mode' = mode
        ELSE /\ recent' = noted
             /\ aborted' = aborted
             /\ mode' = [mode EXCEPT ![t] = "unwinding"]

Raise(slots, seen, t, site, selfPending) ==
    /\ PANIC_INFO' = RaisedSlots(slots, t, site, selfPending)
    /\ Raising(seen, t, site, selfPending)

(***************************************************************************)
(* context.rs: use_env                                                     *)
(***************************************************************************)
\* use_env(env, func) is entered
Enter(t, h) ==
    /\ Running(t)
    /\ Depth(t) < MaxDepth
    /\ LET r == SetEnter(ENV[t], saved[t], h)
       IN  /\ ENV' = StoreLocal(ENV, t, r.slot)
           /\ saved' = [saved EXCEPT ![t] = r.guards]
    /\ scopes' = [scopes EXCEPT ![t] = Append(@, h)]
    /\ last' = Call("use_env", t, 0, "ok", <<>>, EmptyLog)
    /\ UNCHANGED <<mode, PANIC_INFO, recent, INITIALIZED, hooks, msgs, mailbox, logger_proxy, conv,
                   alive, started, aborted>>

\* func returns: the Log values of its frame were consumed or dropped before
Exit(t) ==
    /\ Running(t)
    /\ Depth(t) > 0
    /\ InFrame(t, Depth(t)) = {}
    /\ LET r == SetReturn(ENV[t], saved[t])
       IN  /\ ENV' = StoreLocal(ENV, t, r.slot)
           /\ saved' = [saved EXCEPT ![t] = r.guards]
    /\ scopes' = [scopes EXCEPT ![t] = Pop(@)]
    /\ last' = Call("return", t, 0, "ok", <<>>, EmptyLog)
    /\ UNCHANGED <<mode, PANIC_INFO, recent, INITIALIZED, hooks, msgs, mailbox, logger_proxy, conv,
                   alive, started, aborted>>

(***************************************************************************)
(* Panics of the code that uses the library                                *)
(***************************************************************************)
Faults ==
    {[payload |-> StrPayload("boom"),
      loc |-> Some([file |-> "src/nif.rs", line |-> 12, col |-> 5])],
     [payload |-> [kind |-> "String", text |-> "bang"], loc |-> None],
     [payload |-> [kind |-> "other", text |-> ""],
      loc |-> Some([file |-> "src/lib.rs", line |-> 307, col |-> 40])]}

\* a panic!() in the code running on thread t: the hook runs, then unwinding starts
Panic(t, fault) ==
    /\ Running(t)
    /\ PANIC_INFO' = Hook(PANIC_INFO, INITIALIZED, t, fault.payload, fault.loc)
    /\ recent' = Noted(recent, INITIALIZED, t, fault.payload, fault.loc)
    /\ mode' = [mode EXCEPT ![t] = "unwinding"]
    /\ last' = Call("none", t, 0, "ok", <<>>, EmptyLog)
    /\ UNCHANGED <<ENV, saved, scopes, INITIALIZED, hooks, msgs, mailbox, logger_proxy, conv,
                   alive, started, aborted>>

\* The panic unwinds the innermost frame of thread t: a pending Log of the frame
\* panics in its Drop and aborts the process; otherwise the frame's Log values are
\* dropped and the panic is caught in the frame (catch_unwind, or the NIF boundary
\* at depth 0) or leaves the use_env call, whose guard restores the slot.
Unwind(t, caught) ==
    /\ ~aborted
    /\ mode[t] = "unwinding"
    /\ Depth(t) = 0 => caught
    /\ LET frame == InFrame(t, Depth(t))
           pend == {m \in frame : DropPanics(msgs[m].log)}
       IN  IF pend # {}
           THEN \E victim \in pend :
                  /\ msgs' = [msgs EXCEPT ![victim] =
                                [@ EXCEPT !.state = "gone", !.dropErr = TRUE,
                                          !.log = Freed(@)]]
                  /\ PANIC_INFO' = Hook(PANIC_INFO, INITIALIZED, t, PanicPayload("drop"),
                                        PanicLoc("drop"))
                  /\ recent' = Noted(recent, INITIALIZED, t, PanicPayload("drop"),
                                     PanicLoc("drop"))
                  /\ aborted' = TRUE
                  /\ UNCHANGED <<ENV, saved, scopes, mode>>
           ELSE /\ msgs' = [m \in MsgIds |->
                              IF m \in frame
                              THEN [msgs[m] EXCEPT !.state = "gone", !.log = Freed(@)]
                              ELSE msgs[m]]
                /\ UNCHANGED <<PANIC_INFO, recent, aborted>>
                /\ IF caught
                   THEN /\ mode' = [mode EXCEPT ![t] = "running"]
                        /\ UNCHANGED <<ENV, saved, scopes>>
                   ELSE /\ LET r == SetUnwind(ENV[t], saved[t])
                           IN  /\ ENV' = StoreLocal(ENV, t, r.slot)
                               /\ saved' = [saved EXCEPT ![t] = r.guards]
                        /\ scopes' = [scopes EXCEPT ![t] = Pop(@)]
                        /\ mode' = mode
    /\ last' = Call("unwind", t, 0, "ok", <<>>, EmptyLog)
    /\ UNCHANGED <<INITIALIZED, hooks, mailbox, logger_proxy, conv, alive, started>>

(***************************************************************************)
(* message.rs: log_init                                                    *)
(***************************************************************************)
\* a static that runs its closure on every access
LazyForceAlways(done, count) == count + 1

\* LazyLock::force on INITIALIZED: the closure (set_hook) runs on the first
\* access only; count is the number of set_hook calls made
LazyForce(done, count) == IF done THEN count ELSE count + 1

\* log_init(): assert!(*INITIALIZED)
log_init(t) ==
    /\ Running(t)
    /\ INITIALIZED' = TRUE
    /\ hooks' = LazyForce(INITIALIZED, hooks)
    /\ last' = Call("log_init", t, 0, "ok", <<>>, EmptyLog)
    /\ UNCHANGED <<ENV, saved, scopes, mode, PANIC_INFO, recent, msgs, mailbox, logger_proxy, conv,
                   alive, started, aborted>>

(***************************************************************************)
(* message.rs: the builder                                                 *)
(***************************************************************************)
Born(t, log, rec, how) ==
    [state |-> "live", owner |-> t, depth |-> Depth(t), log |-> log, rec |-> rec,
     born |-> how, sent |-> 0, cancelled |-> FALSE, site |-> "none", dropErr |-> FALSE]

Quiet == UNCHANGED <<ENV, saved, scopes, mode, PANIC_INFO, recent, INITIALIZED, hooks, mailbox,
                     logger_proxy, conv, alive, started, aborted>>

\* Log::new(level, format)
New(t, m, level, format) ==
    /\ Running(t)
    /\ Fresh(m)
    /\ msgs' = [msgs EXCEPT ![m] = Born(t, LogNew(level, format), m, "new")]
    /\ last' = Call("new", t, m, "ok", <<>>, EmptyLog)
    /\ Quiet

\* Log { level, format, args: vec![], metadata: vec![], pending }
Literal(t, m, level, format, pending) ==
    /\ Running(t)
    /\ Fresh(m)
    /\ msgs' = [msgs EXCEPT ![m] = Born(t, LogLiteral(level, format, pending), m, "literal")]
    /\ last' = Call("literal", t, m, "ok", <<>>, EmptyLog)
    /\ Quiet

\* log.clone()
Clone(t, m, c) ==
    /\ Running(t)
    /\ Live(t, m)
    /\ Fresh(c)
    /\ msgs' = [msgs EXCEPT ![c] = Born(t, LogClone(msgs[m].log), msgs[m].rec, "clone")]
    /\ last' = Call("clone", t, c, "ok", <<>>, EmptyLog)
    /\ Quiet

Build(t, m, op, log) ==
    /\ msgs' = [msgs EXCEPT ![m].log = log]
    /\ last' = Call(op, t, m, "ok", <<>>, EmptyLog)
    /\ Quiet

\* log.arg(v)
Arg(t, m, v) ==
    /\ Running(t) /\ Live(t, m)
    /\ Len(msgs[m].log.args) < MaxArgs
    /\ Build(t, m, "arg", LogArg(msgs[m].log, v))

\* log.opt_arg(ov)
OptArg(t, m, ov) ==
    /\ Running(t) /\ Live(t, m)
    /\ Len(msgs[m].log.args) < MaxArgs
    /\ Build(t, m, "opt_arg", LogOptArg(msgs[m].log, ov))

\* log.opt_arg_else(ov, v)
OptArgElse(t, m, ov, v) ==
    /\ Running(t) /\ Live(t, m)
    /\ Len(msgs[m].log.args) < MaxArgs
    /\ Build(t, m, "opt_arg_else", LogOptArgElse(msgs[m].log, ov, v))

\* log.meta(k, v)
Meta(t, m, k, v) ==
    /\ Running(t) /\ Live(t, m)
    /\ Len(msgs[m].log.metadata) < MaxMeta
    /\ Build(t, m, "meta", LogMeta(msgs[m].log, k, v))

\* log.opt_meta(k, ov)
OptMeta(t, m, k, ov) ==
    /\ Running(t) /\ Live(t, m)
    /\ Len(msgs[m].log.metadata) < MaxMeta
    /\ Build(t, m, "opt_meta", LogOptMeta(msgs[m].log, k, ov))

(***************************************************************************)
(* message.rs: send, cancel and Drop.  send and cancel take the Log by      *)
(* value, so it is dropped when they return or unwind.                      *)
(***************************************************************************)
Delivery(t, m, rec, r) ==
    [from |-> t, msg |-> m, rec |-> rec, to |-> Unwrap(r.to), env |-> Unwrap(ENV[t]),
     wire |-> Unwrap(r.wire)]

\* a mailbox that takes the newest tuple first
TransmitFront(box, d) == <<d>> \o box

\* env.send(&logger_proxy_pid, log_msg): the tuple is put at the end of the
\* proxy's mailbox before the call returns
Transmit(box, d) == Append(box, d)

\* log.send()
Send(t, m, sendOk) ==
    /\ Running(t) /\ Live(t, m)
    /\ Len(mailbox) < MaxMailbox
    /\ LET r == SendSteps(msgs[m].log, ENV[t], logger_proxy, alive, sendOk)
       IN  /\ msgs' = [msgs EXCEPT ![m] =
                         [@ EXCEPT !.state = "gone", !.log = Freed(r.log),
                                   !.sent = IF r.site = "ok" THEN 1 ELSE 0,
                                   !.site = r.site,
                                   !.dropErr = DropPanics(r.log)]]
           /\ last' = Call("send", t, m, r.site, r.trace, EmptyLog)
           /\ IF r.site = "ok"
              THEN /\ mailbox' = Transmit(mailbox, Delivery(t, m, msgs[m].rec, r))
                   /\ UNCHANGED <<mode, PANIC_INFO, recent, aborted>>
              ELSE /\ mailbox' = mailbox
                   /\ Raise(PANIC_INFO, recent, t, r.site, DropPanics(r.log))
    /\ UNCHANGED <<ENV, saved, scopes, INITIALIZED, hooks, logger_proxy, conv, alive, started>>

\* log.cancel()
Cancel(t, m) ==
    /\ Running(t) /\ Live(t, m)
    /\ LET r == CancelSteps(msgs[m].log)
       IN  /\ msgs' = [msgs EXCEPT ![m] =
                         [@ EXCEPT !.state = "gone", !.log = Freed(r.log),
                                   !.cancelled = (r.site = "ok"),
                                   !.site = r.site,
                                   !.dropErr = DropPanics(r.log)]]
           /\ last' = Call("cancel", t, m, r.site, <<>>, EmptyLog)
           /\ IF r.site = "ok"
              THEN UNCHANGED <<mode, PANIC_INFO, recent, aborted>>
              ELSE Raise(PANIC_INFO, recent, t, r.site, DropPanics(r.log))
    /\ UNCHANGED <<ENV, saved, scopes, INITIALIZED, hooks, mailbox, logger_proxy, conv, alive,
                   started>>

\* the Log goes out of scope, or drop(log)
Drop(t, m) ==
    /\ Running(t) /\ Live(t, m)
    /\ msgs' = [msgs EXCEPT ![m] =
                  [@ EXCEPT !.state = "gone", !.log = Freed(@),
                            !.dropErr = DropPanics(msgs[m].log)]]
    /\ IF DropPanics(msgs[m].log)
       THEN /\ last' = Call("drop", t, m, "drop", <<>>, EmptyLog)
            /\ Raise(PANIC_INFO, recent, t, "drop", FALSE)
       ELSE /\ last' = Call("drop", t, m, "ok", <<>>, EmptyLog)
            /\ UNCHANGED <<mode, PANIC_INFO, recent, aborted>>
    /\ UNCHANGED <<ENV, saved, scopes, INITIALIZED, hooks, mailbox, logger_proxy, conv, alive,
                   started>>

(***************************************************************************)
(* panic.rs: send_panic_message                                            *)
(***************************************************************************)
\* a relay that puts the PanicInfo it took back when its send fails
RelayFailedPutBack(slots, t, info) == [slots EXCEPT ![t] = info]

\* send_panic_message does not handle a panic of its send(): the slot stays as
\* the panic left it
RelayFailed(slots, t, info) == slots

\* send_panic_message(fname, arity)
Relay(t, fname, arity, sendOk) ==
    /\ Running(t)
    /\ Len(mailbox) < MaxMailbox
    /\ LET info == PANIC_INFO[t]
           taken == StoreLocal(PANIC_INFO, t, None)
           log == PanicLog(info, fname, arity)
           r == SendSteps(log, ENV[t], logger_proxy, alive, sendOk)
       IN  /\ last' = Call("relay", t, 0, r.site, r.trace, log)
           /\ IF r.site = "ok"
              THEN /\ mailbox' = Transmit(mailbox, Delivery(t, 0, 0, r))
                   /\ PANIC_INFO' = taken
                   /\ recent' = [recent EXCEPT ![t] = None]
                   /\ UNCHANGED <<mode, aborted>>
              ELSE /\ mailbox' = mailbox
                   /\ PANIC_INFO' =
                          RelayFailed(RaisedSlots(taken, t, r.site, DropPanics(r.log)), t,
                                      info)
                   /\ Raising([recent EXCEPT ![t] = None], t, r.site, DropPanics(r.log))
    /\ UNCHANGED <<ENV, saved, scopes, INITIALIZED, hooks, msgs, logger_proxy, conv, alive,
                   started>>

(***************************************************************************)
(* The logger proxy process of the BEAM                                    *)
(***************************************************************************)
Calm == UNCHANGED <<ENV, saved, scopes, mode, PANIC_INFO, recent, INITIALIZED, hooks, msgs,
                    mailbox, aborted, conv>>

\* a proxy is spawned and registers the name
ProxyStart(p) ==
    /\ ~aborted
    /\ p \notin started /\ \A q \in Pids : q < p => q \in started
    /\ ~IsSome(logger_proxy)
    /\ started' = started \cup {p}
    /\ alive' = alive \cup {p}
    /\ logger_proxy' = Some(p)
    /\ last' = Call("none", "t1", 0, "ok", <<>>, EmptyLog)
    /\ Calm

\* the proxy exits
ProxyExit(p) ==
    /\ ~aborted
    /\ p \in alive
    /\ alive' = alive \ {p}
    /\ last' = Call("none", "t1", 0, "ok", <<>>, EmptyLog)
    /\ UNCHANGED <<started, logger_proxy>>
    /\ Calm

\* the BEAM removes the name of the exited process
Unregister ==
    /\ ~aborted
    /\ IsSome(logger_proxy) /\ Unwrap(logger_proxy) \notin alive
    /\ logger_proxy' = None
    /\ last' = Call("none", "t1", 0, "ok", <<>>, EmptyLog)
    /\ UNCHANGED <<started, alive>>
    /\ Calm

(***************************************************************************)
(* Specifications.  Each one runs a part of the program: the others are too *)
(* large to explore together.                                               *)
(***************************************************************************)
Main == {"t1"}
NewLevels == {"Info", "Error"}
OptValues == {None} \cup {Some(v) : v \in Values}
MetaValues == {"a"}
OptMetaValues == {None, Some("a")}
Names == {"hello"}
Arities == {12}
FirstMsg == {1}
FirstPid == {1}

\* One thread builds, sends, cancels and drops one Log value.
Next ==
    \/ \E t \in Main : Enter(t, <<t, Depth(t) + 1>>)
    \/ \E t \in Main : Exit(t)
    \/ \E t \in Main, f \in Faults : f.payload.text = "boom" /\ Panic(t, f)
    \/ \E t \in Main, c \in BOOLEAN : Unwind(t, c)
    \/ \E t \in Main, m \in FirstMsg, l \in NewLevels, f \in Formats : New(t, m, l, f)
    \/ \E t \in Main, m \in FirstMsg, l \in NewLevels, f \in Formats, p \in BOOLEAN :
          Literal(t, m, l, f, p)
    \/ \E t \in Main, m \in FirstMsg, v \in Values : Arg(t, m, v)
    \/ \E t \in Main, m \in FirstMsg, ov \in OptValues : OptArg(t, m, ov)
    \/ \E t \in Main, m \in FirstMsg, ov \in OptValues, v \in Values :
          OptArgElse(t, m, ov, v)
    \/ \E t \in Main, m \in FirstMsg, k \in Keys, v \in MetaValues : Meta(t, m, k, v)
    \/ \E t \in Main, m \in FirstMsg, k \in Keys, ov \in OptMetaValues :
          OptMeta(t, m, k, ov)
    \/ \E t \in Main, m \in FirstMsg, ok \in BOOLEAN : Send(t, m, ok)
    \/ \E t \in Main, m \in FirstMsg : Cancel(t, m)
    \/ \E t \in Main, m \in FirstMsg : Drop(t, m)
    \/ \E p \in Pids : ProxyStart(p)
    \/ \E p \in Pids : ProxyExit(p)
    \/ Unregister

Spec == Init /\ [][Next]_vars

\* The threads create Log values, clone them and consume each of them.
NextClone ==
    \/ \E t \in Threads : Depth(t) = 0 /\ Enter(t, <<t, 1>>)
    \/ \E t \in Threads : Exit(t)
    \/ \E t \in Threads, f \in Faults : f.payload.text = "boom" /\ Panic(t, f)
    \/ \E t \in Threads, c \in BOOLEAN : Unwind(t, c)
    \/ \E t \in Threads, m \in MsgIds, l \in {"Info"}, f \in Formats : New(t, m, l, f)
    \/ \E t \in Threads, m, c \in MsgIds : Clone(t, m, c)
    \/ \E t \in Threads, m \in MsgIds, v \in MetaValues : Arg(t, m, v)
    \/ \E t \in Threads, m \in MsgIds, ok \in BOOLEAN : Send(t, m, ok)
    \/ \E t \in Threads, m \in MsgIds : Cancel(t, m)
    \/ \E t \in Threads, m \in MsgIds : Drop(t, m)
    \/ \E p \in FirstPid : ProxyStart(p)
    \/ \E p \in FirstPid : ProxyExit(p)
    \/ Unregister

SpecClone == Init /\ [][NextClone]_vars

\* One thread nests use_env calls, panics and relays its panics to the logger proxy.
NextPanic ==
    \/ \E t \in Main, h \in Handles : h \in HandlesOf(t) /\ Enter(t, h)
    \/ \E t \in Main : Exit(t)
    \/ \E t \in Main, f \in Faults : Panic(t, f)
    \/ \E t \in Main, c \in BOOLEAN : Unwind(t, c)
    \/ \E t \in Main : log_init(t)
    \/ \E t \in Main, n \in Names, a \in Arities, ok \in BOOLEAN : Relay(t, n, a, ok)
    \/ \E p \in FirstPid : ProxyStart(p)
    \/ \E p \in FirstPid : ProxyExit(p)
    \/ Unregister

SpecPanic == Init /\ [][NextPanic]_vars

\* Two threads, each with its own context and panics, send to the one proxy.
NextThreads ==
    \/ \E t \in Threads : Depth(t) = 0 /\ Enter(t, <<t, 1>>)
    \/ \E t \in Threads : Exit(t)
    \/ \E t \in Threads, f \in Faults : f.payload.text = "boom" /\ Panic(t, f)
    \/ \E t \in Threads, c \in BOOLEAN : Unwind(t, c)
    \/ \E t \in Threads : log_init(t)
    \/ \E t \in Threads, m \in MsgIds, l \in {"Info"}, f \in Formats : New(t, m, l, f)
    \/ \E t \in Threads, m \in MsgIds : Send(t, m, TRUE)
    \/ \E t \in Threads, n \in Names, a \in Arities : Relay(t, n, a, TRUE)
    \/ \E p \in FirstPid : ProxyStart(p)

SpecThreads == Init /\ [][NextThreads]_vars

\* One thread sends while logger proxies start, exit and register again.
NextProxy ==
    \/ \E t \in Main : Depth(t) = 0 /\ Enter(t, <<t, 1>>)
    \/ \E t \in Main : Exit(t)
    \/ \E t \in Main, c \in BOOLEAN : Unwind(t, c)
    \/ \E t \in Main, m \in MsgIds, l \in {"Info"}, f \in Formats : New(t, m, l, f)
    \/ \E t \in Main, m \in MsgIds, ok \in BOOLEAN : Send(t, m, ok)
    \/ \E p \in Pids : ProxyStart(p)
    \/ \E p \in Pids : ProxyExit(p)
    \/ Unregister

SpecProxy == Init /\ [][NextProxy]_vars

\* The strings given to LogLevel::from: the names, the synonyms, and others.
Strings ==
    {"trace", "debug", "info", "notice", "warn", "warning", "error", "critical",
     "alert", "emergency", "fatal", "unknown-xyz", "Debug", "INFO", "Warning", ""}

Still == UNCHANGED <<ENV, saved, scopes, mode, PANIC_INFO, INITIALIZED, hooks, msgs,
                     mailbox, logger_proxy, alive, started, aborted, recent, last>>

\* LogLevel::from(s)
FromStr(s) ==
    /\ conv' = [fn |-> "from_str", arg |-> s, ret |-> LevelFromStr(s)]
    /\ Still

\* <&str>::from(level)
IntoStr(l) ==
    /\ conv' = [fn |-> "into_str", arg |-> l, ret |-> LevelToStr(l)]
    /\ Still

\* LogLevel::from(<&str>::from(level)): the string just made is parsed
Reparse ==
    /\ conv.fn = "into_str"
    /\ conv' = [fn |-> "round_trip", arg |-> conv.arg, ret |-> LevelFromStr(conv.ret)]
    /\ Still

\* a < b
Less(a, b) ==
    /\ conv' = [fn |-> "lt", arg |-> <<a, b>>, ret |-> LevelLess(a, b)]
    /\ Still

\* a == b
Equal(a, b) ==
    /\ conv' = [fn |-> "eq", arg |-> <<a, b>>, ret |-> LevelEq(a, b)]
    /\ Still

\* The functions of level.rs are applied to every string and every level.
NextLevel ==
    \/ \E s \in Strings : FromStr(s)
    \/ \E l \in Levels : IntoStr(l)
    \/ Reparse
    \/ \E a, b \in Levels : Less(a, b)
    \/ \E a, b \in Levels : Equal(a, b)

SpecLevel == Init /\ [][NextLevel]_vars

(***************************************************************************)
(* Properties                                                              *)
(***************************************************************************)
IsGone(m) == msgs[m].state = "gone"

\* The step is the call op made on the live Log value last'.m.
Called(op) == last'.op = op /\ last'.m \in MsgIds /\ msgs[last'.m].state = "live"

Deliveries(m) == {i \in 1..Len(mailbox) : mailbox[i].msg = m}

\* C1: a Log made by new that was only built on (never passed to send or cancel)
\* panics in its Drop, and a Log that was delivered or cancelled is dropped without
\* a panic.
C1_DropGuard ==
    \A m \in MsgIds :
        IsGone(m) /\ msgs[m].born = "new" =>
            /\ msgs[m].site = "none" => msgs[m].dropErr
            /\ (msgs[m].sent = 1 \/ msgs[m].cancelled) => ~msgs[m].dropErr

C1_Witness ==
    \E m \in MsgIds :
        /\ IsGone(m) /\ msgs[m].born = "new"
        /\ msgs[m].site = "none" /\ msgs[m].dropErr
        /\ last.op = "drop" /\ last.site = "drop"

NoDuplicateKey(metadata) ==
    \A i, j \in 1..Len(metadata) : i # j => metadata[i][1] # metadata[j][1]

AllKeysShort(metadata) == \A i \in 1..Len(metadata) : metadata[i][1] # LongKey

\* C3: send on a pending Log either appends exactly one tuple to the proxy's
\* mailbox and leaves the Log used, after ENV was read, the arguments and metadata
\* were encoded, the map was built and the proxy was found registered and alive,
\* in this order; or it panics and nothing was transmitted.
C3_DeliverOnceOrAbort ==
    [][(Called("send") /\ msgs[last'.m].log.pending) =>
          LET t == last'.t
              m == last'.m
          IN  \/ /\ Len(mailbox') = Len(mailbox) + 1
                 /\ SubSeq(mailbox', 1, Len(mailbox)) = mailbox
                 /\ mailbox'[Len(mailbox')].msg = m
                 /\ msgs'[m].sent = 1 /\ ~msgs'[m].log.pending /\ ~msgs'[m].dropErr
                 /\ mode'[t] = "running" /\ ~aborted'
                 /\ IsSome(ENV[t])
                 /\ AllKeysShort(msgs[m].log.metadata)
                 /\ NoDuplicateKey(msgs[m].log.metadata)
                 /\ IsSome(logger_proxy) /\ Unwrap(logger_proxy) \in alive
                 /\ last'.trace = <<"env", "encode", "map", "whereis", "alive", "used",
                                    "send">>
              \/ /\ mailbox' = mailbox
                 /\ msgs'[m].sent = 0
                 /\ aborted' \/ mode'[t] = "unwinding"
                 /\ ErrorOf(last'.site) \in {"NoActiveContext", "DuplicateOrInvalidKey",
                                             "ConsumerUnresolvable", "DeliveryFailed"}
                 /\ "send" \notin {last'.trace[i] : i \in 1..Len(last'.trace)}]_vars

C3_Witness ==
    /\ last.op = "send" /\ last.site = "ok"
    /\ Len(mailbox) = 1
    /\ Len(mailbox[1].wire[4]) = 2
    /\ DOMAIN mailbox[1].wire[5] = {[atom |-> "user"], [atom |-> "uid"]}

\* C4: send on a thread whose ENV is not set transmits nothing, and on a pending
\* Log it fails with NoActiveContext.
C4_NoContext ==
    [][(Called("send") /\ ~IsSome(ENV[last'.t])) =>
          /\ mailbox' = mailbox
          /\ msgs'[last'.m].sent = 0
          /\ msgs[last'.m].log.pending =>
                 /\ ErrorOf(last'.site) = "NoActiveContext"
                 /\ aborted' \/ mode'[last'.t] = "unwinding"]_vars

C4_Witness ==
    /\ last.op = "send" /\ last.site = "no_env"
    /\ ~IsSome(ENV[last.t])
    /\ IsSome(logger_proxy)
    /\ mailbox = <<>>

BuilderOps == {"arg", "opt_arg", "opt_arg_else", "meta", "opt_meta"}

\* C5: send and cancel leave the Log used, and send or cancel on a Log that is
\* already used panics with UseAfterConsumption, transmits nothing and leaves the
\* Log used.
C5_UseAfterConsumption ==
    [][(Called("send") \/ Called("cancel")) =>
          LET t == last'.t
              m == last'.m
          IN  /\ last'.site = "ok" => ~msgs'[m].log.pending
              /\ ~msgs[m].log.pending =>
                     /\ ErrorOf(last'.site) = "UseAfterConsumption"
                     /\ mailbox' = mailbox
                     /\ msgs'[m].sent = 0 /\ ~msgs'[m].cancelled
                     /\ ~msgs'[m].log.pending
                     /\ mode'[t] = "unwinding"]_vars

C5_Witness ==
    /\ last.op = "cancel" /\ last.site = "cancel_used"
    /\ IsSome(ENV[last.t]) /\ IsSome(logger_proxy) /\ Unwrap(logger_proxy) \in alive
    /\ mailbox = <<>>

\* C6 as claimed: a builder method called on a Log whose flag says used leaves
\* args and metadata unchanged.
C6_Original ==
    [][(\E op \in BuilderOps : Called(op)) /\ ~msgs[last'.m].log.pending =>
          /\ msgs'[last'.m].log.args = msgs[last'.m].log.args
          /\ msgs'[last'.m].log.metadata = msgs[last'.m].log.metadata]_vars

\* C6 as amended: the builder methods never look at the flag.  Called on a Log
\* whose flag says used they raise nothing and leave the flag alone; arg,
\* opt_arg_else and meta append one element all the same.
C6_BuilderIgnoresFlag ==
    [][(\E op \in BuilderOps : Called(op)) /\ ~msgs[last'.m].log.pending =>
          LET t == last'.t
              old == msgs[last'.m].log
              new == msgs'[last'.m].log
          IN  /\ last'.site = "ok"
              /\ mode'[t] = "running" /\ ~aborted'
              /\ msgs'[last'.m].state = "live"
              /\ ~new.pending
              /\ last'.op \in {"arg", "opt_arg_else"} =>
                     /\ Len(new.args) = Len(old.args) + 1
                     /\ SubSeq(new.args, 1, Len(old.args)) = old.args
                     /\ new.metadata = old.metadata
              /\ last'.op = "meta" =>
                     /\ Len(new.metadata) = Len(old.metadata) + 1
                     /\ SubSeq(new.metadata, 1, Len(old.metadata)) = old.metadata
                     /\ new.args = old.args]_vars

C6_Witness ==
    \E m \in MsgIds :
        /\ last.op = "arg" /\ last.m = m
        /\ msgs[m].state = "live" /\ ~msgs[m].log.pending
        /\ msgs[m].born = "literal"
        /\ Len(msgs[m].log.args) = 2

C8_ScopedContext ==
    \A t \in Threads :
        /\ Len(saved[t]) = Len(scopes[t])
        /\ ENV[t] = IF scopes[t] = <<>> THEN None ELSE Some(scopes[t][Len(scopes[t])])

C8_Witness ==
    /\ last.op = "unwind" /\ last.t = "t1"
    /\ mode["t1"] = "unwinding"
    /\ scopes["t1"] = << <<"t1", 1>> >>
    /\ ENV["t1"] = Some(<<"t1", 1>>)
    /\ IsSome(PANIC_INFO["t1"])

\* What the proxy must be told about the panic the hook was last given.
Told(seen) ==
    IF ~IsSome(seen)
    THEN [text |-> "unable to find panic information", file |-> "<unknown>",
          line |-> "?", col |-> "?"]
    ELSE CASE Unwrap(seen).payload = StrPayload("boom") ->
                  [text |-> "boom", file |-> "src/nif.rs", line |-> "12", col |-> "5"]
           [] Unwrap(seen).payload.text = "bang" ->
                  [text |-> "bang", file |-> "<unknown>", line |-> "?", col |-> "?"]
           [] Unwrap(seen).payload.kind = "other" ->
                  [text |-> "Box<dyn Any>", file |-> "src/lib.rs", line |-> "307",
                   col |-> "40"]
           [] Unwrap(seen).payload = PanicPayload("ship") ->
                  [text |-> "failed to ship log message to Elixir",
                   file |-> "src/message.rs", line |-> "217", col |-> "13"]

Bin(v) == [bin |-> v]
Atom(a) == [atom |-> a]

\* The tuple tells the proxy of this panic, at level critical.
TellsOf(wire, told) ==
    /\ wire[1] = Atom("log") /\ wire[2] = Atom("critical")
    /\ Len(wire[4]) = 6
    /\ wire[4][3] = Bin(told.file) /\ wire[4][4] = Bin(told.line)
    /\ wire[4][5] = Bin(told.col) /\ wire[4][6] = Bin(told.text)
    /\ DOMAIN wire[5] = {Atom("file"), Atom("line"), Atom("column")}
    /\ wire[5][Atom("file")] = Bin(told.file)
    /\ wire[5][Atom("line")] = Bin(told.line)
    /\ wire[5][Atom("column")] = Bin(told.col)

\* C9: a relay that delivers sends exactly one critical tuple, about the panic the
\* hook was given last on this thread since the slot was taken, or with the
\* placeholders when there was none, and leaves the slot empty.
C9_LastWriteWinsTakeOnce ==
    [][(last'.op = "relay" /\ last'.site = "ok") =>
          LET t == last'.t
          IN  /\ Len(mailbox') = Len(mailbox) + 1
              /\ SubSeq(mailbox', 1, Len(mailbox)) = mailbox
              /\ mailbox'[Len(mailbox')].from = t
              /\ TellsOf(mailbox'[Len(mailbox')].wire, Told(recent[t]))
              /\ PANIC_INFO'[t] = None]_vars

C9_Witness ==
    /\ last.op = "relay" /\ last.site = "ok"
    /\ Len(mailbox) = 2
    /\ mailbox[1].wire[4][6] = Bin("boom")
    /\ mailbox[1].wire[5][Atom("line")] = Bin("12")
    /\ mailbox[2].wire[4][6] = Bin("unable to find panic information")
    /\ mailbox[2].wire[5][Atom("file")] = Bin("<unknown>")

\* C10: a step of one thread leaves the ENV slot, the guards and the PANIC_INFO
\* slot of every other thread as they were; the handle in a thread's slot, and the
\* one a transmission was made with, is one the thread itself installed; and a
\* relay reports the panic of its own thread.
C10_ThreadLocal ==
    /\ [](\A t \in Threads : IsSome(ENV[t]) => Unwrap(ENV[t]) \in HandlesOf(t))
    /\ [](\A i \in 1..Len(mailbox) : mailbox[i].env \in HandlesOf(mailbox[i].from))
    /\ [][\A u \in Threads \ {last'.t} :
             /\ ENV'[u] = ENV[u]
             /\ saved'[u] = saved[u]
             /\ PANIC_INFO'[u] = PANIC_INFO[u]]_vars
    /\ [][(last'.op = "relay" /\ last'.site = "ok") =>
             TellsOf(mailbox'[Len(mailbox')].wire, Told(recent[last'.t]))]_vars

C10_Witness ==
    /\ ENV["t1"] = Some(<<"t1", 1>>) /\ ENV["t2"] = Some(<<"t2", 1>>)
    /\ IsSome(PANIC_INFO["t1"])
    /\ last.op = "relay" /\ last.t = "t2" /\ last.site = "ok"
    /\ ~IsSome(PANIC_INFO["t2"])
    /\ Len(mailbox) = 2
    /\ mailbox[1].from = "t2" /\ mailbox[1].msg = 0
    /\ mailbox[1].wire[4][6] = Bin("boom")
    /\ mailbox[2].from = "t2" /\ mailbox[2].msg = 0
    /\ mailbox[2].wire[4][6] = Bin("unable to find panic information")

\* The tuples thread t transmitted, in the order the proxy received them.
FromThread(box, t) == SelectSeq(box, LAMBDA d : d.from = t)

\* C11: every send or relay that succeeds puts exactly one tuple behind those its
\* thread transmitted before, the tuple of the Log the call was made on, and
\* leaves the tuples of the other threads in their order; no other step touches
\* the mailbox.
C11_PerThreadOrder ==
    [][IF last'.op \in {"send", "relay"} /\ last'.site = "ok"
       THEN /\ Len(mailbox') = Len(mailbox) + 1
            /\ \E i \in 1..Len(mailbox') :
                   /\ mailbox'[i].from = last'.t /\ mailbox'[i].msg = last'.m
                   /\ FromThread(mailbox', last'.t) =
                          Append(FromThread(mailbox, last'.t), mailbox'[i])
            /\ \A u \in Threads \ {last'.t} :
                   FromThread(mailbox', u) = FromThread(mailbox, u)
       ELSE mailbox' = mailbox]_vars

C11_Witness ==
    /\ Len(mailbox) = 2
    /\ mailbox[1].from = "t1" /\ mailbox[1].msg = 2
    /\ mailbox[2].from = "t1" /\ mailbox[2].msg = 1
    /\ last.op = "send" /\ last.t = "t1" /\ last.m = 1

\* C12: a send that got past the encoding transmits to the pid registered as
\* logger_proxy at the time of the call, whatever pid earlier sends went to; when
\* no pid is registered, or the registered pid is not alive, it fails with
\* ConsumerUnresolvable and transmits nothing.
C12_ResolvedOnEverySend ==
    [][(/\ Called("send") /\ msgs[last'.m].log.pending
        /\ IsSome(ENV[last'.t])
        /\ AllKeysShort(msgs[last'.m].log.metadata)
        /\ NoDuplicateKey(msgs[last'.m].log.metadata)) =>
          IF IsSome(logger_proxy) /\ Unwrap(logger_proxy) \in alive
          THEN /\ last'.site \in {"ok", "ship"}
               /\ last'.site = "ok" =>
                      /\ Len(mailbox') = Len(mailbox) + 1
                      /\ mailbox'[Len(mailbox')].to = Unwrap(logger_proxy)
          ELSE /\ ErrorOf(last'.site) = "ConsumerUnresolvable"
               /\ last'.site = (IF IsSome(logger_proxy) THEN "not_alive"
                                                         ELSE "not_registered")
               /\ mailbox' = mailbox
               /\ msgs'[last'.m].sent = 0]_vars

C12_Witness ==
    /\ Len(mailbox) = 2
    /\ mailbox[1].to # mailbox[2].to
    /\ mailbox[1].to \notin alive
    /\ logger_proxy = Some(mailbox[2].to)
    /\ last.op = "send" /\ last.site = "ok"

\* C13: set_hook is called exactly once, by the first log_init; every later
\* log_init, on any thread, changes nothing.
C13_InitOnce ==
    /\ [](hooks = IF INITIALIZED THEN 1 ELSE 0)
    /\ [][last'.op = "log_init" =>
             /\ INITIALIZED' /\ hooks' = 1
             /\ INITIALIZED =>
                    UNCHANGED <<ENV, saved, scopes, mode, PANIC_INFO, INITIALIZED, hooks,
                                msgs, mailbox, logger_proxy, conv, alive, started, aborted,
                                recent>>]_vars

C13_Witness ==
    /\ last.op = "log_init" /\ last.t = "t2"
    /\ IsSome(PANIC_INFO["t1"])
    /\ INITIALIZED /\ hooks = 1

\* The step changed nothing of the Log but its args.
OnlyArgs(old, new) ==
    /\ new.metadata = old.metadata /\ new.level = old.level
    /\ new.format = old.format /\ new.pending = old.pending

\* The step changed nothing of the Log but its metadata.
OnlyMetadata(old, new) ==
    /\ new.args = old.args /\ new.level = old.level
    /\ new.format = old.format /\ new.pending = old.pending

\* C14: arg(v) and opt_arg(Some(v)) append v; opt_arg(None) appends nothing;
\* opt_arg_else(Some(v), f) appends v and opt_arg_else(None, f) appends f;
\* meta(k, v) and opt_meta(k, Some(v)) append (k, v); opt_meta(k, None) appends
\* nothing.  The argument methods leave metadata, level, format and the flag as
\* they were, the metadata methods leave args, level, format and the flag.
C14_Presence ==
    [][\A t \in Threads, m \in MsgIds :
          LET old == msgs[m].log
              new == msgs'[m].log
          IN  /\ last'.op = "arg" =>
                     \A v \in Values :
                         Arg(t, m, v) =>
                             new.args = old.args \o <<v>> /\ OnlyArgs(old, new)
              /\ last'.op = "opt_arg" =>
                     \A ov \in OptValues :
                         OptArg(t, m, ov) =>
                             /\ new.args = IF ov = None THEN old.args
                                           ELSE old.args \o <<ov[1]>>
                             /\ OnlyArgs(old, new)
              /\ last'.op = "opt_arg_else" =>
                     \A ov \in OptValues, f \in Values :
                         OptArgElse(t, m, ov, f) =>
                             /\ new.args = old.args \o <<IF ov = None THEN f ELSE ov[1]>>
                             /\ Len(new.args) = Len(old.args) + 1
                             /\ OnlyArgs(old, new)
              /\ last'.op = "meta" =>
                     \A k \in Keys, v \in MetaValues :
                         Meta(t, m, k, v) =>
                             /\ new.metadata = old.metadata \o << <<k, v>> >>
                             /\ OnlyMetadata(old, new)
              /\ last'.op = "opt_meta" =>
                     \A k \in Keys, ov \in OptMetaValues :
                         OptMeta(t, m, k, ov) =>
                             /\ new.metadata = IF ov = None THEN old.metadata
                                               ELSE old.metadata \o << <<k, ov[1]>> >>
                             /\ OnlyMetadata(old, new)]_vars

C14_Witness ==
    \E m \in MsgIds :
        /\ last.op = "opt_arg_else" /\ last.m = m
        /\ msgs[m].state = "live" /\ msgs[m].log.pending
        /\ msgs[m].log.args = <<"a", "b">>
        /\ Len(msgs[m].log.metadata) = 2

\* C15: the tuple a successful send transmits is (log, the atom of the level, the
\* format string, the encoded args in the order they were appended, the map that
\* holds every appended key with its encoded value and no other key).
C15_WireTuple ==
    [][(Called("send") /\ last'.site = "ok") =>
          LET log == msgs[last'.m].log
              n == Len(mailbox')
          IN  /\ n = Len(mailbox) + 1
              /\ LET w == mailbox'[n].wire
                 IN  /\ Len(w) = 5
                     /\ w[1] = Atom("log")
                     /\ w[2] = Atom(LevelToStr(log.level))
                     /\ w[3] = Bin(log.format)
                     /\ Len(w[4]) = Len(log.args)
                     /\ \A i \in 1..Len(log.args) : w[4][i] = Bin(log.args[i])
                     /\ DOMAIN w[5] =
                            {Atom(log.metadata[i][1]) : i \in 1..Len(log.metadata)}
                     /\ Cardinality(DOMAIN w[5]) = Len(log.metadata)
                     /\ \A i \in 1..Len(log.metadata) :
                            w[5][Atom(log.metadata[i][1])] = Bin(log.metadata[i][2])]_vars

C15_Witness ==
    /\ last.op = "send" /\ last.site = "ok"
    /\ Len(mailbox) = 1
    /\ mailbox[1].wire[2] = Atom("error")
    /\ mailbox[1].wire[3] = Bin("Hello, ~s!")
    /\ mailbox[1].wire[4] = <<Bin("a"), Bin("b")>>
    /\ mailbox[1].wire[5] = (Atom("uid") :> Bin("a")) @@ (Atom("user") :> Bin("a"))

\* C16: every relay builds one pending Log of level Critical with the six args
\* function name, arity, file, line, column, panic text, and the metadata file,
\* line, column holding the same file, line and column: the placeholders when the
\* slot is empty, the panic's text with its location when it has one, and the
\* panic's text with the location placeholders when it has none.
C16_RelayMessage ==
    [][last'.op = "relay" =>
          LET log == last'.log
              told == Told(recent[last'.t])
          IN  /\ log.level = "Critical"
              /\ log.format = "rustler_nif_panic[~s/~s@~s:~s:~s]: ~s"
              /\ log.pending
              /\ \E n \in Names, a \in Arities :
                     log.args = <<n, IF a = 12 THEN "12" ELSE "?", told.file, told.line,
                                  told.col, told.text>>
              /\ log.metadata = << <<"file", log.args[3]>>, <<"line", log.args[4]>>,
                                   <<"column", log.args[5]>> >>
              /\ ~IsSome(PANIC_INFO[last'.t]) =>
                     /\ log.args[6] = "unable to find panic information"
                     /\ log.args[3] = "<unknown>" /\ log.args[4] = "?"
                     /\ log.args[5] = "?"
              /\ (IsSome(PANIC_INFO[last'.t]) /\ ~IsSome(PANIC_INFO[last'.t][1].file)) =>
                     /\ log.args[6] = PANIC_INFO[last'.t][1].message
                     /\ log.args[3] = "<unknown>" /\ log.args[4] = "?"
                     /\ log.args[5] = "?"
              /\ (IsSome(PANIC_INFO[last'.t]) /\ IsSome(PANIC_INFO[last'.t][1].file)) =>
                     /\ log.args[6] = PANIC_INFO[last'.t][1].message
                     /\ log.args[3] = PANIC_INFO[last'.t][1].file[1]
                     /\ log.args[4] # "?" /\ log.args[5] # "?"]_vars

C16_Witness ==
    /\ last.op = "relay" /\ last.site = "ok"
    /\ last.log.args = <<"hello", "12", "<unknown>", "?", "?", "bang">>
    /\ last.log.metadata = << <<"file", "<unknown>">>, <<"line", "?">>,
                              <<"column", "?">> >>
    /\ Len(mailbox) = 2
    /\ mailbox[1].wire[4][6] = Bin("Box<dyn Any>")
    /\ mailbox[1].wire[4][3] = Bin("src/lib.rs")

\* C17: parsing the string of a level gives the level back; trace, warn and fatal
\* parse to Debug, Warning and Emergency; every string parses to a level, and one
\* that is neither the lower-case name of a level nor a synonym parses to Debug.
C17_ParseRoundTrip ==
    /\ conv.fn = "round_trip" => conv.ret = conv.arg
    /\ conv.fn = "from_str" =>
           /\ conv.ret \in Levels
           /\ conv.ret =
                  CASE conv.arg \in {"debug", "trace"} -> "Debug"
                    [] conv.arg = "info" -> "Info"
                    [] conv.arg = "notice" -> "Notice"
                    [] conv.arg \in {"warning", "warn"} -> "Warning"
                    [] conv.arg = "error" -> "Error"
                    [] conv.arg = "critical" -> "Critical"
                    [] conv.arg = "alert" -> "Alert"
                    [] conv.arg \in {"emergency", "fatal"} -> "Emergency"
                    [] OTHER -> "Debug"

C17_Witness == conv.fn = "round_trip" /\ conv.arg = "Warning" /\ conv.ret = "Warning"

\* C18: a < b holds exactly when a is declared before b in the sequence Debug,
\* Info, Notice, Warning, Error, Critical, Alert, Emergency, and a == b holds
\* exactly when a and b are the same level.
C18_DeclaredOrder ==
    LET Rank == [Debug |-> 1, Info |-> 2, Notice |-> 3, Warning |-> 4, Error |-> 5,
                 Critical |-> 6, Alert |-> 7, Emergency |-> 8]
    IN  /\ conv.fn = "lt" => (conv.ret <=> Rank[conv.arg[1]] < Rank[conv.arg[2]])
        /\ conv.fn = "eq" => (conv.ret <=> conv.arg[1] = conv.arg[2])

C18_Witness == conv.fn = "lt" /\ conv.arg = <<"Notice", "Warning">> /\ conv.ret

EarlySites == {"no_env", "bad_key", "map", "not_registered", "not_alive"}

\* C19: send on a pending Log clears the flag after ENV was read, the values were
\* encoded, the map was built and the proxy was found registered and alive, and
\* before env.send.  A send that fails before that point leaves the flag set, so
\* the Drop of the Log panics while the first panic unwinds; a send whose env.send
\* is rejected leaves the flag cleared, transmits nothing, and the Log is dropped
\* without a second panic.
C19_MarkedBeforeTransmission ==
    [][(Called("send") /\ msgs[last'.m].log.pending) =>
          LET t == last'.t
              m == last'.m
          IN  /\ last'.site \in EarlySites \cup {"ship", "ok"}
              /\ last'.site \in EarlySites =>
                     /\ msgs'[m].log.pending
                     /\ msgs'[m].dropErr
                     /\ aborted'
                     /\ mailbox' = mailbox
                     /\ \A i \in 1..Len(last'.trace) : last'.trace[i] # "used"
              /\ last'.site = "ship" =>
                     /\ ~msgs'[m].log.pending
                     /\ ~msgs'[m].dropErr
                     /\ ~aborted' /\ mode'[t] = "unwinding"
                     /\ mailbox' = mailbox /\ msgs'[m].sent = 0
                     /\ last'.trace = <<"env", "encode", "map", "whereis", "alive", "used">>
              /\ last'.site = "ok" =>
                     /\ ~msgs'[m].log.pending
                     /\ last'.trace = <<"env", "encode", "map", "whereis", "alive", "used",
                                        "send">>]_vars

C19_Witness ==
    \E m \in MsgIds :
        /\ last.op = "send" /\ last.m = m /\ last.site = "ship"
        /\ IsGone(m) /\ msgs[m].born = "new"
        /\ ~msgs[m].log.pending /\ ~msgs[m].dropErr /\ msgs[m].sent = 0
        /\ mailbox = <<>> /\ ~aborted

\* C20: a relay whose send fails transmits nothing and leaves in the slot of its
\* thread what the panic of the failure left there: the PanicInfo of that panic
\* when the hook is installed, nothing otherwise.  The PanicInfo the relay took
\* is not in the slot any more.
C20_TakenBeforeDelivery ==
    [][(last'.op = "relay" /\ last'.site # "ok") =>
          LET t == last'.t
              was == PANIC_INFO[t]
              now == PANIC_INFO'[t]
              cause == IF aborted' THEN "drop" ELSE last'.site
          IN  /\ mailbox' = mailbox
              /\ ErrorOf(last'.site) \in {"NoActiveContext", "ConsumerUnresolvable",
                                          "DeliveryFailed"}
              /\ last'.log.args[6] = (IF IsSome(was) THEN was[1].message
                                      ELSE "unable to find panic information")
              /\ ~INITIALIZED => now = None
              /\ INITIALIZED =>
                     /\ IsSome(now)
                     /\ now[1].message = PanicPayload(cause).text
                     /\ now[1].file = Some("src/message.rs")
              /\ (IsSome(was) /\ was[1].file # Some("src/message.rs")) => now # was]_vars

C20_Witness ==
    /\ last.op = "relay" /\ last.site = "ship" /\ last.t = "t1"
    /\ last.log.args[6] = "boom"
    /\ IsSome(PANIC_INFO["t1"])
    /\ PANIC_INFO["t1"][1].message = "failed to ship log message to Elixir"
    /\ mailbox = <<>>

====
